---- MODULE Spec2Model ----
(***************************************************************************)
(* Model of the Figma engine of metasearch (src/engines/figma.ts): the     *)
(* module-level state getClient / orgId, engine.init, engine.search with   *)
(* its three per-kind sub-queries, and getThumbnail.                       *)
(*                                                                         *)
(* JavaScript runs every handler to completion, so one action is one       *)
(* macrotask: a call of init or search, or the arrival of one network      *)
(* response together with all the promise continuations it wakes.          *)
(*                                                                         *)
(* rateLimit is imported from ../util, which is not part of the sources;   *)
(* the accessor it returns is modelled from section 4.1 of the             *)
(* specification (AccessorCall, AccessorReset, AccessorSettle).            *)
(***************************************************************************)
EXTENDS Integers, Sequences, FiniteSets

\* ---------------------------------------------------------------- bounds
MaxSearches == 2   \* search calls made by the host
MaxInits == 2      \* init calls made by the host
MaxOrg == 2        \* organization ids the host may pass: 1..MaxOrg
MaxResults == 2    \* elements of one sub-query response
MaxRecent == 1     \* recent files of a project

\* ------------------------------------------------------------ vocabulary
Kinds == 1 .. 3
UrlFragment(k) == <<"fig_files", "folders", "teams">>[k]
Orgs == 1 .. MaxOrg
Users == {"user"}
Queries == {"q"}
SearchIds == 1 .. MaxSearches

\* getClient, orgId: the module-level variables of figma.ts.
\* logins:   the invocations of the login factory, in order; a handle is named
\*           by the index of the login that produced it (one session each).
\* searches: the calls of search, each with its three MODEL_TYPES callbacks.
\* inits:    the organizations passed to init so far, in order.
\* resets:   how often the accessor's window has ended on a cached handle.
\* call:     one call of a pure part of the engine (a getResult, the token
\*           extraction) on its own: the arguments, and the value once done.
VARIABLES getClient, orgId, logins, searches, inits, resets, call
vars == <<getClient, orgId, logins, searches, inits, resets, call>>

\* ------------------------------------------------- the accessor (util.ts)
\* The accessor returned by rateLimit(F, 24): def is FALSE while getClient is
\* undefined; cur is the login whose promise the accessor holds (in flight or
\* resolved), 0 when it holds none; user is what the factory closure captured.
\* What the accessor does once its quota is used up is left open by section
\* 4.1; no run of this model invokes the factory more than MaxSearches times.
NoAccessor == [def |-> FALSE, cur |-> 0, user |-> "user"]
NewAccessor(user) == [def |-> TRUE, cur |-> 0, user |-> user]

Cached(acc, lg) == acc.cur # 0 /\ lg[acc.cur].st = "ok"

\* A mutant of AccessorCall: every call invokes the factory.
AccessorCallNoShare(acc, lg, gen) ==
    LET lg2 == Append(lg, [st |-> "pending", user |-> acc.user, gen |-> gen, out |-> "none"])
    IN [acc |-> [acc EXCEPT !.cur = Len(lg2)], lg |-> lg2, p |-> Len(lg2)]

\* One call A(): the promise held, or a new invocation of the factory F.
AccessorCall(acc, lg, gen) ==
    IF acc.cur # 0
    THEN [acc |-> acc, lg |-> lg, p |-> acc.cur]
    ELSE LET lg2 == Append(lg, [st |-> "pending", user |-> acc.user, gen |-> gen, out |-> "none"])
         IN [acc |-> [acc EXCEPT !.cur = Len(lg2)], lg |-> lg2, p |-> Len(lg2)]

\* The quota window resets: a cached resolved value is dropped.
AccessorReset(acc, lg) ==
    IF Cached(acc, lg) THEN [acc EXCEPT !.cur = 0] ELSE acc

\* A mutant of AccessorSettle: a rejected promise stays cached.
AccessorSettleKeep(acc, p, ok) == acc

\* The factory's promise p settles: a rejection is not cached.
AccessorSettle(acc, p, ok) ==
    IF acc.cur = p /\ ~ok THEN [acc EXCEPT !.cur = 0] ELSE acc

\* ------------------------------------------------------------- search state
\* req is the sub-query's GET, nq how often it was sent.
NoRequest == [path |-> << >>, desc |-> FALSE, org_id |-> << >>, query |-> "", sort |-> ""]
NoKind == [ph |-> "none", p |-> 0, org |-> << >>, nq |-> 0, kerr |-> "none",
           raw |-> << >>, els |-> << >>, req |-> NoRequest]
\* ooo notes that an answer arrived while an earlier kind, or an earlier
\* probe of the same kind, was still unanswered.
IdleSearch == [st |-> "idle", q |-> "q", gen |-> 0, err |-> "none", ooo |-> FALSE,
               result |-> << >>, kind |-> [k \in Kinds |-> NoKind]]

\* ------------------------------------------------------- backend responses
SliceLen == 3      \* recent_files.slice(0, 3)
Found == 302       \* the status getThumbnail accepts
MaxLoc == 1        \* signed image locations the backend may answer: 1..MaxLoc
Statuses == {0, 200, Found, 404}   \* 0: transport failure, no response
Locations == 1 .. MaxLoc
ProbeResponses == [status : Statuses, loc : Locations]
LoginOutcomes == {"session", "nocookie", "failure"}

Min(a, b) == IF a < b THEN a ELSE b

\* meta.results of one sub-query, of at most n elements. The elements are
\* named by their position (ids are opaque to the engine): Files and Teams
\* carry an id, Projects an id and recent_files, at most r Files named 1..m.
RawEl(k, i, m) == [id |-> i, recent |-> IF k = 2 THEN [j \in 1 .. m |-> j] ELSE << >>]
Responses(k, n, r) ==
    UNION {IF k = 2
           THEN {[i \in 1 .. len |-> RawEl(k, i, ms[i])] : ms \in [1 .. len -> 0 .. r]}
           ELSE {[i \in 1 .. len |-> RawEl(k, i, 0)]} : len \in 0 .. n}

\* --------------------------------------------------------------- thumbnails
\* A File f has two addresses: f.url, the page of the file, and
\* f.thumbnail_url, which the backend redirects to the signed image.
ThumbnailUrl(f) == <<"thumbnail_url", f>>
LocationUrl(l) == <<"location", l>>

\* A mutant of ProbeRequest: the transport's default of five redirects.
ProbeRequestFollow(f) == [url |-> ThumbnailUrl(f), maxRedirects |-> 5]

\* client.get(f.thumbnail_url, { maxRedirects: 0 })
ProbeRequest(f) == [url |-> ThumbnailUrl(f), maxRedirects |-> 0]

\* The transport on the answer resp to request req: in no-redirect mode the
\* answer is surfaced as it is; otherwise a redirect is followed by a GET
\* on its Location, which answers with the image. sent lists the GETs made.
Transport(req, resp) ==
    IF resp.status = Found /\ req.maxRedirects > 0
    THEN [resp |-> [status |-> 200, loc |-> resp.loc],
          sent |-> <<req, [url |-> LocationUrl(resp.loc),
                           maxRedirects |-> req.maxRedirects - 1]>>]
    ELSE [resp |-> resp, sent |-> <<req>>]

\* A call of getThumbnail on File f: its GET is out (sent), no answer yet.
PendingProbe(f) ==
    [done |-> FALSE, href |-> f, src |-> 0, ans |-> "none", sent |-> <<ProbeRequest(f)>>]

\* A mutant of GetThumbnail: a response that is no redirect gives a fragment
\* without image instead of an error.
GetThumbnailFallback(f, resp) ==
    IF resp.status = Found
    THEN [ok |-> TRUE, slot |-> [done |-> TRUE, href |-> f, src |-> resp.loc, ans |-> "none",
                               sent |-> <<ProbeRequest(f)>>]]
    ELSE [ok |-> TRUE, slot |-> [done |-> TRUE, href |-> f, src |-> 0, ans |-> "none",
                               sent |-> <<ProbeRequest(f)>>]]

\* getThumbnail on the response of its GET: the fragment, or the error thrown.
GetThumbnail(f, resp) ==
    IF resp.status = Found
    THEN [ok |-> TRUE, slot |-> [done |-> TRUE, href |-> f, src |-> resp.loc, ans |-> "none",
                               sent |-> <<ProbeRequest(f)>>]]
    ELSE [ok |-> FALSE, slot |-> PendingProbe(f)]

\* ------------------------------------------------------------ normalisation
\* A mutant of MakeEl: a project probes all its recent files.
MakeElNoSlice(k, e, org) ==
    IF k = 1
    THEN [id |-> e.id, probes |-> <<PendingProbe(e.id)>>, org |-> << >>, fin |-> FALSE,
          late |-> FALSE]
    ELSE IF k = 2
    THEN LET n == Len(e.recent)
         IN [id |-> e.id,
             probes |-> [j \in 1 .. n |-> PendingProbe(e.recent[j])],
             org |-> IF n = 0 THEN org ELSE << >>,
             fin |-> (n = 0),
             late |-> FALSE]
    ELSE [id |-> e.id, probes |-> << >>, org |-> org, fin |-> TRUE, late |-> FALSE]

\* getResult of kind k called on element e while orgId is org: the probes it
\* issues at once and, where nothing is awaited, the finished result.
MakeEl(k, e, org) ==
    IF k = 1
    THEN [id |-> e.id, probes |-> <<PendingProbe(e.id)>>, org |-> << >>, fin |-> FALSE,
          late |-> FALSE]
    ELSE IF k = 2
    THEN LET n == Min(SliceLen, Len(e.recent))
         IN [id |-> e.id,
             probes |-> [j \in 1 .. n |-> PendingProbe(e.recent[j])],
             org |-> IF n = 0 THEN org ELSE << >>,
             fin |-> (n = 0),
             late |-> FALSE]
    ELSE [id |-> e.id, probes |-> << >>, org |-> org, fin |-> TRUE, late |-> FALSE]

\* Element el of kind k after probe j was answered with slot, orgId being org:
\* a project reads orgId for its url once all its fragments are there. late
\* notes that a probe was answered before an earlier probe of the element.
ElAfterProbe(k, el, j, slot, org) ==
    LET ps == [el.probes EXCEPT ![j] = slot]
        all == \A i \in 1 .. Len(ps) : ps[i].done
    IN [el EXCEPT !.probes = ps,
                  !.fin = all,
                  !.org = IF all /\ k = 2 THEN org ELSE << >>,
                  !.late = @ \/ \E i \in 1 .. j - 1 : ~el.probes[i].done]

NormalizedEl(k, el) ==
    [kind |-> k, id |-> el.id, org |-> el.org,
     thumbs |-> [j \in 1 .. Len(el.probes) |->
                    [href |-> el.probes[j].href, src |-> el.probes[j].src]]]

\* what the inner Promise.all of kind k resolves to
KindResult(k, els) == [i \in 1 .. Len(els) |-> NormalizedEl(k, els[i])]

RECURSIVE FlatFrom(_, _)
FlatFrom(ss, i) == IF i > Len(ss) THEN << >> ELSE ss[i] \o FlatFrom(ss, i + 1)

\* A mutant of Flat: the kinds' lists are concatenated last kind first.
FlatReversed(ss) == FlatFrom([i \in 1 .. Len(ss) |-> ss[Len(ss) + 1 - i]], 1)

\* Array.prototype.flat() on the array of the kinds' lists
Flat(ss) == FlatFrom(ss, 1)

\* A mutant of Settle: the rejection of a kind is dropped.
SettleDropsRejection(sr) ==
    IF sr.st # "pending" THEN sr
    ELSE IF \A k \in Kinds : sr.kind[k].ph = "done"
    THEN [sr EXCEPT !.st = "resolved",
                    !.result = Flat([k \in Kinds |-> KindResult(k, sr.kind[k].els)])]
    ELSE sr

\* A mutant of Settle: a failed kind contributes an empty list.
SettlePartial(sr) ==
    IF sr.st # "pending" THEN sr
    ELSE IF \A k \in Kinds : sr.kind[k].ph \in {"done", "failed"}
    THEN [sr EXCEPT !.st = "resolved",
                    !.result = Flat([k \in Kinds |->
                        IF sr.kind[k].ph = "done"
                        THEN KindResult(k, sr.kind[k].els) ELSE << >>])]
    ELSE sr

\* The outer Promise.all(...).flat() of search: it rejects with the first
\* rejection of a kind, and resolves once every kind has resolved.
Settle(sr) ==
    IF sr.st # "pending" THEN sr
    ELSE IF \E k \in Kinds : sr.kind[k].ph = "failed"
    THEN [sr EXCEPT !.st = "rejected",
                    !.err = sr.kind[CHOOSE k \in Kinds : sr.kind[k].ph = "failed"].kerr]
    ELSE IF \A k \in Kinds : sr.kind[k].ph = "done"
    THEN [sr EXCEPT !.st = "resolved",
                    !.result = Flat([k \in Kinds |-> KindResult(k, sr.kind[k].els)])]
    ELSE sr

\* --------------------------------------------------------------------- text
\* A string is the sequence of its tokens: a run of letters, or one digit, or
\* one other character; a value the engine only copies (a name, a url) is
\* one token. Two strings are equal exactly when their token sequences are.
MaxCount == 11     \* file_count and member_count range over 0..MaxCount
MaxFiles == 4      \* recent_files of a project rendered on its own
Strs == {"x", "y", "z"}
NoCall == [op |-> "none", arg |-> << >>, ret |-> << >>, done |-> FALSE]

Digit(d) == <<"0", "1", "2", "3", "4", "5", "6", "7", "8", "9">>[d + 1]
RECURSIVE NumString(_)
\* `${n}` for a non-negative integer
NumString(n) == IF n < 10 THEN <<Digit(n)>>
                ELSE Append(NumString(n \div 10), Digit(n % 10))

Br == <<"<", "br", ">">>

\* A mutant of Fragment: the link and the image source change places.
FragmentSwapped(url, src) ==
    <<"<", "a", " ", "href", "=", "\"", src, "\"", ">",
      "<", "img", " ", "src", "=", "\"", url, "\"", ">", "<", "/", "a", ">">>

\* `<a href="${f.url}"><img src="${src}"></a>`
Fragment(url, src) ==
    <<"<", "a", " ", "href", "=", "\"", url, "\"", ">",
      "<", "img", " ", "src", "=", "\"", src, "\"", ">", "<", "/", "a", ">">>

\* fig_files getResult on model, its probe answered by resp
FigFileResult(model, resp) ==
    LET r == GetThumbnail(model, resp)
    IN IF r.ok
       THEN [ok |-> TRUE,
             snippet |-> <<"File", " ", "created", " ", "by", " ", model.handle>>
                         \o Br \o Fragment(r.slot.href.url, r.slot.src),
             title |-> <<model.name>>,
             url |-> <<model.url>>]
       ELSE [ok |-> FALSE, snippet |-> << >>, title |-> << >>, url |-> << >>]

\* A mutant of Plural: the singular word also for no item at all.
PluralUpToOne(c, one, many) ==
    IF c <= 1 THEN <<Digit(c), " ", one>> ELSE NumString(c) \o <<" ", many>>

\* c === 1 ? "1 file" : `${c} files`, and the same for members
Plural(c, one, many) ==
    IF c = 1 THEN <<"1", " ", one>> ELSE NumString(c) \o <<" ", many>>

\* recent_files.slice(0, 3)
Slice(fs) == SubSeq(fs, 1, Min(SliceLen, Len(fs)))

RECURSIVE JoinFrom(_, _, _)
JoinFrom(ts, sep, i) ==
    IF i > Len(ts) THEN << >>
    ELSE IF i = Len(ts) THEN ts[i]
    ELSE ts[i] \o sep \o JoinFrom(ts, sep, i + 1)

\* A mutant of Join: Array.prototype.join() with its default separator.
JoinComma(ts) == JoinFrom(ts, <<",">>, 1)

\* (await Promise.all(...)).join("")
Join(ts) == JoinFrom(ts, << >>, 1)

\* the thumbnail part of a project's snippet, from the fragments in the
\* order of the array Promise.all resolves to
ThumbnailPart(frags) == Join(frags)

\* folders getResult on model, probe j of the slice answered by resps[j]
FoldersResult(model, resps) ==
    LET fs == Slice(model.recent)
        rs == [j \in 1 .. Len(fs) |-> GetThumbnail(fs[j], resps[j])]
    IN IF \A j \in 1 .. Len(fs) : rs[j].ok
       THEN [ok |-> TRUE,
             snippet |-> <<"Project", " ", "containing", " ">>
                         \o Plural(model.count, "file", "files") \o Br
                         \o ThumbnailPart([j \in 1 .. Len(fs) |->
                                Fragment(rs[j].slot.href.url, rs[j].slot.src)])]
       ELSE [ok |-> FALSE, snippet |-> << >>]

\* teams getResult on model
TeamsResult(model) ==
    [ok |-> TRUE,
     snippet |-> <<"Team", " ", "with", " ">> \o Plural(model.count, "member", "members")]

\* ------------------------------------------------------------------- init
RECURSIVE OrgString(_)
\* `${organization}` for a non-negative integer: its decimal digits
OrgString(n) == IF n < 10 THEN <<n>> ELSE Append(OrgString(n \div 10), n % 10)

\* A mutant of InitAccessor: a second init keeps the accessor it finds.
InitAccessorKeep(acc, user) == IF acc.def THEN acc ELSE NewAccessor(user)

\* getClient = rateLimit(async () => {...}, 24): always a new accessor
InitAccessor(acc, user) == NewAccessor(user)

Init ==
    /\ getClient = NoAccessor
    /\ orgId = << >>
    /\ logins = << >>
    /\ searches = [s \in SearchIds |-> IdleSearch]
    /\ inits = << >>
    /\ resets = 0
    /\ call = NoCall

\* engine.init({organization, password, user})
Initialize(organization, user) ==
    /\ Len(inits) < MaxInits
    /\ getClient' = InitAccessor(getClient, user)
    /\ orgId' = OrgString(organization)
    /\ inits' = Append(inits, organization)
    /\ UNCHANGED <<logins, searches, resets, call>>

\* ----------------------------------------------------------------- search
\* A mutant of NotInitialized: the guard is missing.
NotInitializedNever(acc) == FALSE

\* if (!getClient) throw Error("Engine not initialized")
NotInitialized(acc) == ~acc.def

\* client.get(`/api/search/${urlFragment}`, {params: {desc: false,
\* org_id: orgId, query: q, sort: "relevancy"}}) of kind k
IssueQuery(kr, k, q, org) ==
    [kr EXCEPT !.ph = "query", !.org = org, !.nq = @ + 1,
               !.req = [path |-> <<"/api/search/", UrlFragment(k)>>, desc |-> FALSE,
                        org_id |-> org, query |-> q, sort |-> "relevancy"]]

\* A mutant of FailKind: a failed sub-query is sent once more.
FailKindRetry(kr, e) ==
    IF e = "Query" /\ kr.nq < 2
    THEN [kr EXCEPT !.nq = @ + 1]
    ELSE [kr EXCEPT !.ph = "failed", !.kerr = e]

\* the callback of a kind throws e: its promise rejects
FailKind(kr, e) == [kr EXCEPT !.ph = "failed", !.kerr = e]

\* The host drops the promise of a call that has run to its end: nothing of
\* that call is part of the state any more.
Released(sr) ==
    IF sr.st \in {"resolved", "rejected"}
       /\ \A k \in Kinds : sr.kind[k].ph \in {"done", "failed"}
    THEN [IdleSearch EXCEPT !.st = "released"]
    ELSE sr

\* The three callbacks of MODEL_TYPES.map run one after the other up to their
\* first await, each calling getClient(); the window may end after the
\* tick-th call (tick = 0: not during these calls).
ThreeCalls(acc, lg, gen, tick) ==
    LET c1 == AccessorCall(acc, lg, gen)
        a1 == IF tick = 1 THEN AccessorReset(c1.acc, c1.lg) ELSE c1.acc
        c2 == AccessorCall(a1, c1.lg, gen)
        a2 == IF tick = 2 THEN AccessorReset(c2.acc, c2.lg) ELSE c2.acc
        c3 == AccessorCall(a2, c2.lg, gen)
    IN [acc |-> c3.acc, lg |-> c3.lg, ps |-> <<c1.p, c2.p, c3.p>>]

\* engine.search(q), up to the first suspension of each of its callbacks
SearchStart(s, q, tick) ==
    /\ searches[s].st = "idle"
    /\ \A t \in SearchIds : t < s => searches[t].st # "idle"
    /\ IF NotInitialized(getClient)
       THEN /\ tick = 0
            /\ searches' = [t \in SearchIds |->
                   IF t # s THEN Released(searches[t])
                   ELSE Settle([searches[s] EXCEPT
                              !.st = "pending", !.q = q, !.gen = Len(inits),
                              !.kind = [k \in Kinds |-> FailKind(NoKind, "NotInit")]])]
            /\ UNCHANGED <<getClient, logins, resets>>
       ELSE LET r == ThreeCalls(getClient, logins, Len(inits), tick)
            IN /\ tick # 0 => Cached(getClient, logins)
               /\ getClient' = r.acc
               /\ logins' = r.lg
               /\ resets' = IF tick = 0 THEN resets ELSE resets + 1
               /\ searches' = [t \in SearchIds |->
                      IF t # s THEN Released(searches[t])
                      ELSE Settle([searches[s] EXCEPT
                                 !.st = "pending", !.q = q, !.gen = Len(inits),
                                 !.kind = [k \in Kinds |->
                                    IF r.lg[r.ps[k]].st = "ok"
                                    THEN IssueQuery([NoKind EXCEPT !.p = r.ps[k]], k, q, orgId)
                                    ELSE [NoKind EXCEPT !.ph = "client",
                                                        !.p = r.ps[k]]]])]
    /\ UNCHANGED <<orgId, inits, call>>

\* the clock passes the end of the accessor's window
WindowReset ==
    /\ Cached(getClient, logins)
    /\ getClient' = AccessorReset(getClient, logins)
    /\ resets' = resets + 1
    /\ UNCHANGED <<orgId, logins, searches, inits, call>>

\* A mutant of Factory: the token is not tested.
FactoryNoTest(outcome) == outcome # "failure"

\* The factory resolves when the login response carries a cookie matching
\* /^figma\.st=[^;]/; it throws when none does, and when axios.post throws.
Factory(outcome) == outcome = "session"

\* A mutant of Invalidate: a failed request drops the accessor's session.
InvalidateOnFailure(acc) == [acc EXCEPT !.cur = 0]

\* A mutant of Invalidate: a failed request clears getClient.
InvalidateClearsAccessor(acc) == NoAccessor

\* what a failed sub-query or probe does to getClient: nothing
Invalidate(acc) == acc

\* the response of login p arrives; every callback awaiting p continues
LoginResponse(p, outcome) ==
    LET ok == Factory(outcome)
    IN /\ p \in 1 .. Len(logins)
       /\ logins[p].st = "pending"
       /\ logins' = [logins EXCEPT ![p].st = IF ok THEN "ok" ELSE "fail",
                                   ![p].out = outcome]
       /\ getClient' = AccessorSettle(getClient, p, ok)
       /\ searches' = [s \in SearchIds |->
              Settle([searches[s] EXCEPT !.kind = [k \in Kinds |->
                  IF @[k].ph = "client" /\ @[k].p = p
                  THEN IF ok THEN IssueQuery(@[k], k, searches[s].q, orgId)
                       ELSE FailKind(@[k], "Login")
                  ELSE @[k]]])]
       /\ UNCHANGED <<orgId, inits, resets, call>>

\* a kind before k, or a probe of kind k before probe j of element i, is
\* still unanswered
EarlierOpen(sr, k, i, j) ==
    \/ \E k2 \in Kinds : k2 < k /\ sr.kind[k2].ph \in {"client", "query", "thumbs"}
    \/ \E i2 \in 1 .. Len(sr.kind[k].els) :
          \E j2 \in 1 .. Len(sr.kind[k].els[i2].probes) :
              /\ i2 < i \/ (i2 = i /\ j2 < j)
              /\ ~sr.kind[k].els[i2].probes[j2].done

\* the sub-query of kind k fails: a status outside 2xx, or no response
QueryFails(s, k) ==
    /\ searches[s].kind[k].ph = "query"
    /\ searches' = [searches EXCEPT ![s] =
           Settle([@ EXCEPT !.kind[k] = FailKind(@, "Query")])]
    /\ getClient' = Invalidate(getClient)
    /\ UNCHANGED <<orgId, logins, inits, resets, call>>

\* the sub-query of kind k answers raw; getResult runs on every element
QueryResponds(s, k, raw) ==
    /\ searches[s].kind[k].ph = "query"
    /\ LET els == [i \in 1 .. Len(raw) |-> MakeEl(k, raw[i], orgId)]
           done == \A i \in 1 .. Len(els) : els[i].fin
       IN searches' = [searches EXCEPT ![s] =
              Settle([@ EXCEPT !.ooo = @ \/ EarlierOpen(searches[s], k, 0, 0),
                               !.kind[k] =
                  [@ EXCEPT !.raw = raw, !.els = els,
                            !.ph = IF done THEN "done" ELSE "thumbs"]])]
    /\ UNCHANGED <<getClient, orgId, logins, inits, resets, call>>

\* probe j of element i of kind k is answered
ThumbResponse(s, k, i, j, resp) ==
    /\ searches[s].kind[k].ph = "thumbs"
    /\ i \in 1 .. Len(searches[s].kind[k].els)
    /\ j \in 1 .. Len(searches[s].kind[k].els[i].probes)
    /\ ~searches[s].kind[k].els[i].probes[j].done
    /\ LET kr == searches[s].kind[k]
           t == Transport(kr.els[i].probes[j].sent[1], resp)
           r == GetThumbnail(kr.els[i].probes[j].href, t.resp)
           slot == [r.slot EXCEPT !.ans = IF t.resp.status = Found THEN "redirect"
                                                                     ELSE "other",
                                  !.sent = t.sent]
           els == [kr.els EXCEPT ![i] = ElAfterProbe(k, @, j, slot, orgId)]
           done == \A n \in 1 .. Len(els) : els[n].fin
       IN searches' = [searches EXCEPT ![s] =
              Settle([@ EXCEPT !.ooo = @ \/ EarlierOpen(searches[s], k, i, j),
                               !.kind[k] =
                  IF r.ok
                  THEN [kr EXCEPT !.els = els, !.ph = IF done THEN "done" ELSE "thumbs"]
                  ELSE FailKind([kr EXCEPT !.els[i].probes[j] = slot], "Thumb")])]
    /\ getClient' = IF GetThumbnail(searches[s].kind[k].els[i].probes[j].href,
                                    Transport(searches[s].kind[k].els[i].probes[j].sent[1],
                                              resp).resp).ok
                    THEN getClient ELSE Invalidate(getClient)
    /\ UNCHANGED <<orgId, logins, inits, resets, call>>

\* search s and every callback it started have run to their end
Finished(s) ==
    /\ searches[s].st \in {"resolved", "rejected", "released"}
    /\ \A k \in Kinds : searches[s].kind[k].ph \in {"none", "done", "failed"}

\* the host's init calls, the clock, and the answers to login requests
Session ==
    \/ \E o \in Orgs, u \in Users : Initialize(o, u)
    \/ WindowReset
    \/ \E p \in 1 .. MaxSearches, o \in LoginOutcomes : LoginResponse(p, o)

\* The host calls search again only when the previous call has run to its
\* end; the backend answers with up to MaxResults elements per kind.
Next ==
    \/ \E s \in SearchIds, q \in Queries, tick \in 0 .. 2 :
          /\ \A t \in SearchIds : t < s => Finished(t)
          /\ SearchStart(s, q, tick)
    \/ Session
    \/ \E s \in SearchIds, k \in Kinds : QueryFails(s, k)
    \/ \E s \in SearchIds, k \in Kinds :
          \E raw \in Responses(k, MaxResults, MaxRecent) : QueryResponds(s, k, raw)
    \/ \E s \in SearchIds, k \in Kinds, i \in 1 .. MaxResults, j \in 1 .. SliceLen :
          \E resp \in ProbeResponses : ThumbResponse(s, k, i, j, resp)

Spec == Init /\ [][Next]_vars

\* Searches overlap; the backend finds nothing or fails.
NextOverlap ==
    \/ \E s \in SearchIds, q \in Queries, tick \in 0 .. 2 : SearchStart(s, q, tick)
    \/ Session
    \/ \E s \in SearchIds, k \in Kinds : QueryFails(s, k)
    \/ \E s \in SearchIds, k \in Kinds : QueryResponds(s, k, << >>)

SpecOverlap == Init /\ [][NextOverlap]_vars
\* One search, asked with either of two queries after inits with either of
\* two users; every kind answers with at most one element, a project with up
\* to MaxFiles recent files.
DeepQueries == {"q", "r"}
DeepUsers == {"user", "nobody"}
NextDeep ==
    \/ \E q \in DeepQueries, tick \in 0 .. 2 : SearchStart(1, q, tick)
    \/ \E o \in Orgs, u \in DeepUsers : Initialize(o, u)
    \/ WindowReset
    \/ \E p \in 1 .. MaxSearches, o \in LoginOutcomes : LoginResponse(p, o)
    \/ \E k \in Kinds : QueryFails(1, k)
    \/ \E k \in Kinds : \E raw \in Responses(k, 1, MaxFiles) : QueryResponds(1, k, raw)
    \/ \E k \in Kinds, j \in 1 .. SliceLen :
          \E resp \in ProbeResponses : ThumbResponse(1, k, 1, j, resp)

SpecDeep == Init /\ [][NextDeep]_vars

\* Searches one at a time, every kind answering with at most one element;
\* each login, sub-query and probe gets a response or a failure in the end.
NextLive ==
    \/ \E s \in SearchIds, q \in Queries, tick \in 0 .. 2 :
          /\ \A t \in SearchIds : t < s => Finished(t)
          /\ SearchStart(s, q, tick)
    \/ Session
    \/ \E s \in SearchIds, k \in Kinds : QueryFails(s, k)
    \/ \E s \in SearchIds, k \in Kinds :
          \E raw \in Responses(k, 1, MaxRecent) : QueryResponds(s, k, raw)
    \/ \E s \in SearchIds, k \in Kinds, j \in 1 .. SliceLen :
          \E resp \in ProbeResponses : ThumbResponse(s, k, 1, j, resp)

\* what the transport guarantees
Answered ==
    /\ \A p \in 1 .. MaxSearches :
           WF_vars(\E o \in LoginOutcomes : LoginResponse(p, o))
    /\ \A s \in SearchIds, k \in Kinds :
           WF_vars(QueryFails(s, k)
                   \/ \E raw \in Responses(k, 1, MaxRecent) : QueryResponds(s, k, raw))
    /\ \A s \in SearchIds, k \in Kinds, j \in 1 .. SliceLen :
           WF_vars(\E resp \in ProbeResponses : ThumbResponse(s, k, 1, j, resp))

SpecLive == Init /\ [][NextLive]_vars /\ Answered

\* ---------------------------------------------- the getResults on their own
\* One call of a getResult of MODEL_TYPES on a model the backend may send,
\* with the answers its probes get; the engine's state plays no part.
FileModels == [name : Strs, url : Strs, thumbnail_url : Strs, handle : Strs]
TextResponses == [status : Statuses, loc : Strs]
FileUrls == <<"url1", "url2", "url3", "url4", "url5", "url6">>
ImageUrls == <<"image1", "image2", "image3">>
RecentFile(j) == [name |-> "x", url |-> FileUrls[j], thumbnail_url |-> "y", handle |-> "z"]
Counts == 0 .. MaxCount

TextArgs(op) ==
    IF op = "file" THEN [model : FileModels, resp : TextResponses]
    ELSE IF op = "project"
    THEN UNION {[model : {[count |-> c, recent |-> [j \in 1 .. m |-> RecentFile(j)]] :
                              c \in Counts},
                 resps : [1 .. Min(SliceLen, m) -> TextResponses]] : m \in 0 .. MaxFiles}
    ELSE [model : [count : Counts]]

InitText ==
    /\ getClient = NoAccessor
    /\ orgId = << >>
    /\ logins = << >>
    /\ searches = [s \in SearchIds |-> IdleSearch]
    /\ inits = << >>
    /\ resets = 0
    /\ \E op \in {"file", "project", "team"} :
          \E a \in TextArgs(op) : call = [NoCall EXCEPT !.op = op, !.arg = a]

Return(op, ret) ==
    /\ call.op = op
    /\ ~call.done
    /\ call' = [call EXCEPT !.ret = ret, !.done = TRUE]
    /\ UNCHANGED <<getClient, orgId, logins, searches, inits, resets>>

FigFileCall == Return("file", FigFileResult(call.arg.model, call.arg.resp))
FoldersCall == Return("project", FoldersResult(call.arg.model, call.arg.resps))
TeamsCall == Return("team", TeamsResult(call.arg.model))

NextText == FigFileCall \/ FoldersCall \/ TeamsCall

SpecText == InitText /\ [][NextText]_vars

\* ------------------------------------------------- the login on its own
\* A Set-Cookie string is a sequence of symbols: the cookie name figma.st
\* (one symbol: it holds neither = nor ;), the characters = and ;, and a for
\* any other character.
MaxCookies == 2    \* cookie strings of one login response
MaxCookieLen == 4  \* symbols of one cookie string
CookieName == "figma.st"
CookieChars == {CookieName, "=", ";", "a"}
CookieStrings == UNION {[1 .. n -> CookieChars] : n \in 0 .. MaxCookieLen}
CookieLists == UNION {[1 .. n -> CookieStrings] : n \in 0 .. MaxCookies}

\* /^figma\.st=[^;]/.test(c)
Matches(c) == Len(c) >= 3 /\ c[1] = CookieName /\ c[2] = "=" /\ c[3] # ";"

\* Array.prototype.find: the index of the first string that matches, or 0
Find(cs) ==
    IF \E i \in 1 .. Len(cs) : Matches(cs[i])
    THEN CHOOSE i \in 1 .. Len(cs) :
             Matches(cs[i]) /\ \A j \in 1 .. i - 1 : ~Matches(cs[j])
    ELSE 0

\* the first position from i on where c holds one of chars, or Len(c) + 1
NextOf(c, chars, i) ==
    IF \E n \in i .. Len(c) : c[n] \in chars
    THEN CHOOSE n \in i .. Len(c) :
             c[n] \in chars /\ \A m \in i .. n - 1 : c[m] \notin chars
    ELSE Len(c) + 1

\* c.split(/[=;]/)[1] for a string c that holds a = or a ;
SplitSecond(c) ==
    LET i1 == NextOf(c, {"=", ";"}, 1)
    IN SubSeq(c, i1 + 1, NextOf(c, {"=", ";"}, i1 + 1) - 1)

\* The factory on the Set-Cookie strings cs of the login response: the
\* token, tested, and the Cookie header of the handle it creates.
Login(cs) ==
    LET m == Find(cs)
        token == IF m = 0 THEN << >> ELSE SplitSecond(cs[m])
    IN IF token = << >>
       THEN [ok |-> FALSE, token |-> << >>, cookie |-> << >>]
       ELSE [ok |-> TRUE, token |-> token, cookie |-> <<CookieName, "=">> \o token]

InitCookies ==
    /\ getClient = NoAccessor
    /\ orgId = << >>
    /\ logins = << >>
    /\ searches = [s \in SearchIds |-> IdleSearch]
    /\ inits = << >>
    /\ resets = 0
    /\ \E cs \in CookieLists : call = [NoCall EXCEPT !.op = "login", !.arg = cs]

LoginCall == Return("login", Login(call.arg))

SpecCookies == InitCookies /\ [][LoginCall]_vars

\* ------------------------------------------------------------------ claims
Live(s) == searches[s].st \in {"pending", "resolved", "rejected"}
StartsIn(s) == searches[s].st = "idle" /\ searches'[s].st # "idle"

\* every getClient() call that was given login p has seen p's outcome, the
\* same for all: still waiting, the handle, or the rejection
SameOutcome ==
    \A s \in SearchIds, k \in Kinds :
        LET kr == searches[s].kind[k]
        IN Live(s) /\ kr.p # 0 =>
              /\ logins[kr.p].st = "pending" => kr.ph = "client"
              /\ logins[kr.p].st = "ok" => kr.ph # "client" /\ kr.kerr # "Login"
              /\ logins[kr.p].st = "fail" => kr.ph = "failed" /\ kr.kerr = "Login"

\* C1: the getClient() calls made while the accessor holds no resolved handle
\* (none yet, or a login in flight), those of one search and of overlapping
\* searches, invoke the login factory once in all, and all of them get the
\* same handle or the same rejection.
C1_SingleFlight ==
    [][/\ \A s \in SearchIds :
            StartsIn(s) /\ getClient.def /\ ~Cached(getClient, logins) =>
               LET p == IF getClient.cur = 0 THEN Len(logins) + 1 ELSE getClient.cur
               IN /\ Len(logins') = (IF getClient.cur = 0 THEN Len(logins) + 1
                                      ELSE Len(logins))
                  /\ \A k \in Kinds : searches'[s].kind[k].p = p
       /\ SameOutcome']_vars

\* two overlapping searches, six calls, wait for the one login in flight
C1_Witness ==
    /\ Len(logins) = 1 /\ logins[1].st = "pending"
    /\ \A s \in SearchIds, k \in Kinds :
          searches[s].kind[k].ph = "client" /\ searches[s].kind[k].p = 1

AllOrNothing(sr) ==
    /\ sr.st = "resolved" =>
          /\ sr.err = "none"
          /\ \A k \in Kinds :
                /\ sr.kind[k].ph = "done"
                /\ logins[sr.kind[k].p].st = "ok"
                /\ sr.kind[k].nq = 1
                /\ \A i \in 1 .. Len(sr.kind[k].els) :
                      \A j \in 1 .. Len(sr.kind[k].els[i].probes) :
                          sr.kind[k].els[i].probes[j].ans = "redirect"
    /\ (\E k \in Kinds : sr.kind[k].ph = "failed") => sr.st = "rejected"
    /\ sr.st = "rejected" =>
          /\ sr.result = << >>
          /\ \E k \in Kinds : sr.kind[k].ph = "failed" /\ sr.kind[k].kerr = sr.err
    /\ sr.st = "pending" => sr.result = << >> /\ sr.err = "none"

\* C2: a search resolves only when the login, its three sub-queries and all
\* its probes succeeded; as soon as one of them fails it is rejected, with
\* that one error, returns no list, and stays so whatever the others do.
C2_AllOrNothing ==
    [][\A s \in SearchIds :
          /\ Live(s)' => AllOrNothing(searches[s])'
          /\ searches[s].st \in {"resolved", "rejected"} /\ Live(s)' =>
                /\ searches'[s].st = searches[s].st
                /\ searches'[s].err = searches[s].err
                /\ searches'[s].result = searches[s].result]_vars

\* a search is rejected although another of its sub-queries produced results
C2_Witness ==
    \E s \in SearchIds, k \in Kinds :
        /\ searches[s].st = "rejected"
        /\ searches[s].kind[k].ph = "done"
        /\ Len(searches[s].kind[k].els) > 0

\* C3: the list a search returns is the file results, then the project
\* results, then the team results, each in the order of the backend's
\* response, one result per element, with its fragments in the order of
\* recent_files.
C3_ResultOrder ==
    \A s \in SearchIds :
        searches[s].st = "resolved" =>
            LET sr == searches[s]
                n1 == Len(sr.kind[1].raw)
                n2 == Len(sr.kind[2].raw)
                n3 == Len(sr.kind[3].raw)
                At(i) == IF i <= n1 THEN <<1, i>>
                         ELSE IF i <= n1 + n2 THEN <<2, i - n1>>
                         ELSE <<3, i - n1 - n2>>
            IN /\ Len(sr.result) = n1 + n2 + n3
               /\ \A i \in 1 .. Len(sr.result) :
                     LET k == At(i)[1]
                         e == sr.kind[k].raw[At(i)[2]]
                         r == sr.result[i]
                     IN /\ r.kind = k
                        /\ r.id = e.id
                        /\ Len(r.thumbs) = (IF k = 1 THEN 1
                                             ELSE Min(SliceLen, Len(e.recent)))
                        /\ \A j \in 1 .. Len(r.thumbs) :
                              r.thumbs[j].href = (IF k = 1 THEN e.id ELSE e.recent[j])

\* a search resolved with two files, a project and a team, some of its
\* answers having arrived before earlier ones
C3_Witness ==
    \E s \in SearchIds :
        /\ searches[s].st = "resolved"
        /\ searches[s].ooo
        /\ Len(searches[s].kind[1].raw) = 2
        /\ Len(searches[s].kind[2].raw) >= 1
        /\ Len(searches[s].kind[3].raw) >= 1

\* C4: a search called before any init is rejected with "Engine not
\* initialized" and has issued no login, sub-query or probe.
C4_NotInitialized ==
    /\ \A s \in SearchIds :
          Live(s) /\ searches[s].gen = 0 =>
             /\ searches[s].st = "rejected"
             /\ searches[s].err = "NotInit"
             /\ \A k \in Kinds :
                   /\ searches[s].kind[k].p = 0
                   /\ searches[s].kind[k].nq = 0
                   /\ searches[s].kind[k].els = << >>
    /\ \A p \in 1 .. Len(logins) : logins[p].gen > 0

C4_Witness ==
    \E s \in SearchIds :
        searches[s].st = "rejected" /\ searches[s].err = "NotInit" /\ inits = << >>

\* C5 (as claimed): the three sub-queries of one search, and so all its
\* probes, go through one and the same handle.
C5_OneHandle ==
    \A s \in SearchIds :
        Live(s) => \A k1, k2 \in Kinds : searches[s].kind[k1].p = searches[s].kind[k2].p

\* the accessor still holds the handle it held, no login was invoked, and a
\* search started in this step was given that handle by all three calls
KeepsHandle ==
    /\ getClient'.cur = getClient.cur
    /\ logins' = logins
    /\ \A s \in SearchIds :
          StartsIn(s) => \A k \in Kinds : searches'[s].kind[k].p = getClient.cur

\* C6 (as claimed): once a handle is cached, every step that is no window
\* reset keeps it: no new login, and every accessor call returns it.
C6_Original ==
    [][Cached(getClient, logins) /\ resets' = resets => KeepsHandle]_vars

\* C6 (amended): once a handle is cached, every step that is neither a
\* window reset nor a call of init keeps it: no new login, every accessor
\* call returns it, also when a sub-query or a probe of a search fails.
C6_CachedUntilReset ==
    [][Cached(getClient, logins) /\ resets' = resets /\ inits' = inits
          => KeepsHandle]_vars

\* a sub-query or probe made through the cached handle has failed, and the
\* handle is still the cached one
C6_Witness ==
    \E s \in SearchIds, k \in Kinds :
        /\ searches[s].kind[k].ph = "failed"
        /\ searches[s].kind[k].kerr \in {"Query", "Thumb"}
        /\ Cached(getClient, logins)
        /\ getClient.cur = searches[s].kind[k].p

\* C7: when a login is rejected, every call that was given it is rejected
\* with the login error and so is its search, the accessor does not hold the
\* rejected login, and the next accessor call invokes the factory again.
C7_RejectionNotCached ==
    [][/\ SameOutcome'
       /\ \A p \in 1 .. Len(logins') :
             logins'[p].out \in {"nocookie", "failure"} =>
                logins'[p].st = "fail"
       /\ \A p \in 1 .. Len(logins') :
             logins'[p].st = "fail" =>
                /\ getClient'.cur # p
                /\ \A s \in SearchIds, k \in Kinds :
                      Live(s)' /\ searches'[s].kind[k].p = p =>
                          searches'[s].st = "rejected"
       /\ \A s \in SearchIds :
             /\ StartsIn(s)
             /\ getClient.def
             /\ logins # << >>
             /\ logins[Len(logins)].st = "fail"
             /\ logins[Len(logins)].gen = Len(inits)
             => /\ Len(logins') = Len(logins) + 1
                /\ \A k \in Kinds : searches'[s].kind[k].p = Len(logins')]_vars

\* two overlapping searches were given the same login, and it was rejected
C7_Witness ==
    /\ Len(logins) = 1 /\ logins[1].st = "fail" /\ logins[1].out = "nocookie"
    /\ \A s \in SearchIds :
          searches[s].st = "rejected" /\ searches[s].err = "Login"

\* the organization ids search s has put into requests and urls so far
OrgsOf(s) ==
    {searches[s].kind[k].org : k \in {k \in Kinds : searches[s].kind[k].nq > 0}}
    \cup UNION {{searches[s].kind[k].els[i].org :
                   i \in {i \in 1 .. Len(searches[s].kind[k].els) :
                            searches[s].kind[k].els[i].org # << >>}} : k \in Kinds}

\* C8 (as claimed): the org_id of the sub-queries of one search and the
\* organization in the urls of its results are one and the same value.
C8_OneOrganization ==
    \A s \in SearchIds : Live(s) => Cardinality(OrgsOf(s)) <= 1

SameOptionsAgain ==
    /\ Len(inits) >= 1
    /\ Len(inits') = Len(inits) + 1
    /\ inits'[Len(inits')] = inits[Len(inits)]

\* C9 (as claimed): init called again with the same options changes nothing:
\* the accessor keeps its cached session or its login in flight.
C9_Original ==
    [][SameOptionsAgain => getClient' = getClient /\ orgId' = orgId]_vars

\* C9 (amended): init called again with the same options leaves orgId as it
\* is and the engine initialized, but installs a new accessor that holds
\* nothing; every search uses only logins invoked by the accessor of the last
\* init before it, so the first search after the second init logs in anew.
C9_InitReplacesAccessor ==
    [][/\ SameOptionsAgain =>
             /\ orgId' = orgId
             /\ getClient'.def
             /\ getClient'.cur = 0
             /\ logins' = logins
       /\ \A s \in SearchIds, k \in Kinds :
             Live(s)' /\ searches'[s].kind[k].p # 0 =>
                 logins'[searches'[s].kind[k].p].gen = searches'[s].gen]_vars

\* after a login succeeded init was called again with the same options, and
\* the search that followed waits for a second login
C9_Witness ==
    /\ Len(inits) = 2 /\ inits[1] = inits[2]
    /\ Len(logins) = 2 /\ logins[1].st = "ok" /\ logins[1].gen = 1
    /\ \E s \in SearchIds :
          searches[s].gen = 2 /\ \A k \in Kinds : searches[s].kind[k].p = 2

\* C10: a probe answered by anything but a 302 gives no fragment: its kind
\* fails with the probe's error and the search is rejected; every fragment
\* there is comes from a 302 and carries its Location.
C10_ThumbnailError ==
    \A s \in SearchIds, k \in Kinds :
        Live(s) =>
            \A i \in 1 .. Len(searches[s].kind[k].els) :
                \A j \in 1 .. Len(searches[s].kind[k].els[i].probes) :
                    LET slot == searches[s].kind[k].els[i].probes[j]
                    IN /\ slot.ans = "other" =>
                             /\ ~slot.done
                             /\ searches[s].kind[k].ph = "failed"
                             /\ searches[s].kind[k].kerr = "Thumb"
                             /\ searches[s].st = "rejected"
                             /\ searches[s].result = << >>
                       /\ slot.done => slot.ans = "redirect" /\ slot.src \in Locations

\* a probe was answered by something else than a 302 while the other
\* sub-queries of its search had succeeded
C10_Witness ==
    \E s \in SearchIds, k \in Kinds :
        /\ searches[s].kind[k].kerr = "Thumb"
        /\ \E i \in 1 .. Len(searches[s].kind[k].els) :
              \E j \in 1 .. Len(searches[s].kind[k].els[i].probes) :
                  searches[s].kind[k].els[i].probes[j].ans = "other"
        /\ \A k2 \in Kinds \ {k} : searches[s].kind[k2].ph = "done"

\* C11: every thumbnail reference is probed by exactly one GET, on the
\* thumbnail url of the File and with redirect-following disabled; no GET
\* ever goes to the url of a Location header, whatever the probe's answer.
C11_OneProbeNoDownload ==
    \A s \in SearchIds, k \in Kinds :
        Live(s) =>
            \A i \in 1 .. Len(searches[s].kind[k].els) :
                LET el == searches[s].kind[k].els[i]
                IN /\ k = 1 => /\ Len(el.probes) = 1
                               /\ el.probes[1].href = searches[s].kind[k].raw[i].id
                   /\ \A j \in 1 .. Len(el.probes) :
                          /\ el.probes[j].sent =
                                 <<[url |-> ThumbnailUrl(el.probes[j].href),
                                    maxRedirects |-> 0]>>
                          /\ \A n \in 1 .. Len(el.probes[j].sent), l \in Locations :
                                 el.probes[j].sent[n].url # LocationUrl(l)

\* a probe was answered by a redirect and its fragment carries the Location
C11_Witness ==
    \E s \in SearchIds, k \in Kinds :
        /\ Live(s)
        /\ \E i \in 1 .. Len(searches[s].kind[k].els) :
              \E j \in 1 .. Len(searches[s].kind[k].els[i].probes) :
                  LET slot == searches[s].kind[k].els[i].probes[j]
                  IN slot.done /\ slot.ans = "redirect" /\ slot.src \in Locations

\* C12: a File with creator handle H, name T and url U whose probe answers
\* 302 with Location L is normalized to title T, url U and the snippet
\* File created by H<br><a href="U"><img src="L"></a>.
C12_FileFragment ==
    call.op = "file" /\ call.done /\ call.arg.resp.status = 302 =>
        LET H == call.arg.model.handle
            T == call.arg.model.name
            U == call.arg.model.url
            L == call.arg.resp.loc
        IN call.ret = [ok |-> TRUE,
                       title |-> <<T>>,
                       url |-> <<U>>,
                       snippet |-> <<"File", " ", "created", " ", "by", " ", H,
                                     "<", "br", ">",
                                     "<", "a", " ", "href", "=", "\"", U, "\"", ">",
                                     "<", "img", " ", "src", "=", "\"", L, "\"", ">",
                                     "<", "/", "a", ">">>]

\* a File whose name, url, thumbnail url and Location all differ was rendered
C12_Witness ==
    /\ call.op = "file" /\ call.done /\ call.ret.ok
    /\ call.arg.resp.status = 302
    /\ call.arg.model.url # call.arg.resp.loc
    /\ call.arg.model.url # call.arg.model.thumbnail_url
    /\ call.arg.model.url # call.arg.model.name
    /\ call.arg.model.handle # call.arg.model.name

\* the value of cookie string c: what stands between the = after the name
\* and the next ; or the end of the string
WholeValue(c) == SubSeq(c, 3, NextOf(c, {";"}, 3) - 1)

\* C13: for every list of Set-Cookie strings of which one matches the
\* session-cookie pattern, the token is the whole value of the first string
\* that matches, also when that value holds a =, and the handle's Cookie
\* header is figma.st=<that value>.
C13_TokenIsWholeValue ==
    call.op = "login" /\ call.done /\ (\E i \in 1 .. Len(call.arg) : Matches(call.arg[i])) =>
        LET first == CHOOSE i \in 1 .. Len(call.arg) :
                         Matches(call.arg[i]) /\ \A j \in 1 .. i - 1 : ~Matches(call.arg[j])
        IN /\ call.ret.ok
           /\ call.ret.token = WholeValue(call.arg[first])
           /\ call.ret.cookie = <<CookieName, "=">> \o WholeValue(call.arg[first])

\* C14: for every count c >= 0 a project snippet starts with
\* "Project containing 1 file" when c = 1 and with "Project containing c files"
\* otherwise, and a team snippet is "Team with 1 member" when c = 1 and
\* "Team with c members" otherwise, c = 0 included.
C14_Plural ==
    LET c == call.arg.model.count
    IN /\ call.op = "project" /\ call.done /\ call.ret.ok =>
             LET head == IF c = 1
                         THEN <<"Project", " ", "containing", " ", "1", " ", "file">>
                         ELSE <<"Project", " ", "containing", " ">>
                              \o NumString(c) \o <<" ", "files">>
             IN /\ Len(call.ret.snippet) >= Len(head)
                /\ SubSeq(call.ret.snippet, 1, Len(head)) = head
       /\ call.op = "team" /\ call.done =>
             /\ call.ret.ok
             /\ call.ret.snippet =
                    (IF c = 1 THEN <<"Team", " ", "with", " ", "1", " ", "member">>
                     ELSE <<"Team", " ", "with", " ">> \o NumString(c) \o <<" ", "members">>)
             /\ c = 0 => call.ret.snippet = <<"Team", " ", "with", " ", "0", " ", "members">>
             /\ c = 10 => call.ret.snippet =
                              <<"Team", " ", "with", " ", "1", "0", " ", "members">>

\* a project whose file_count is 0 was rendered, thumbnails following the text
C14_Witness ==
    /\ call.op = "project" /\ call.done /\ call.ret.ok
    /\ call.arg.model.count = 0 /\ Len(call.arg.model.recent) > 0

\* C15: a search on an initialized connector sends, for every kind whose
\* getClient() call got a handle, exactly one GET /api/search/<kind> with
\* desc=false, org_id, the caller's query and sort=relevancy: it is out as
\* soon as the handle is there, whatever the other sub-queries do, it is
\* never sent in the step that brings another sub-query's answer, and it is
\* never sent again.
C15_OneQueryPerKind ==
    [][\A s \in SearchIds, k \in Kinds :
          LET kr == searches'[s].kind[k]
          IN /\ kr.nq <= 1
             /\ searches'[s].st \in {"pending", "resolved", "rejected"}
                   /\ kr.p # 0 /\ logins'[kr.p].st = "ok" =>
                   /\ kr.nq = 1
                   /\ kr.req = [path |-> <<"/api/search/",
                                           <<"fig_files", "folders", "teams">>[k]>>,
                                desc |-> FALSE,
                                org_id |-> kr.org,
                                query |-> searches'[s].q,
                                sort |-> "relevancy"]
             /\ kr.nq = 1 /\ searches[s].kind[k].nq = 0 =>
                   /\ kr.req.org_id = orgId
                   /\ \A k2 \in Kinds : searches[s].kind[k2].ph = "query" =>
                                            searches'[s].kind[k2].ph = "query"]_vars

\* the three sub-queries of a search asked with "r" are out at the same time
C15_Witness ==
    \E s \in SearchIds :
        /\ searches[s].st = "pending" /\ searches[s].q = "r"
        /\ \A k \in Kinds : searches[s].kind[k].ph = "query" /\ searches[s].kind[k].nq = 1

\* the thumbnail part of the snippet of a finished project element el
SnippetThumbs(el) ==
    LET r == NormalizedEl(2, el)
    IN ThumbnailPart([j \in 1 .. Len(r.thumbs) |->
           Fragment(FileUrls[r.thumbs[j].href], ImageUrls[r.thumbs[j].src])])

\* C16: a project with recent files R gets exactly min(3, |R|) probes, for
\* R[1], R[2], R[3] in this order; once they are answered the thumbnail part
\* of its snippet is the fragments of these entries in R's order, nothing
\* between them, in whatever order the answers came; a team gets no probe.
C16_ProjectThumbnails ==
    \A s \in SearchIds :
        Live(s) =>
            /\ \A i \in 1 .. Len(searches[s].kind[2].els) :
                   LET R == searches[s].kind[2].raw[i].recent
                       el == searches[s].kind[2].els[i]
                       n == IF Len(R) < 3 THEN Len(R) ELSE 3
                       F(j) == <<"<", "a", " ", "href", "=", "\"", FileUrls[R[j]], "\"", ">",
                                 "<", "img", " ", "src", "=", "\"",
                                 ImageUrls[el.probes[j].src], "\"", ">",
                                 "<", "/", "a", ">">>
                   IN /\ Len(el.probes) = n
                      /\ \A j \in 1 .. n : el.probes[j].href = R[j]
                      /\ el.fin =>
                            SnippetThumbs(el) =
                                (IF n >= 1 THEN F(1) ELSE << >>)
                                \o (IF n >= 2 THEN F(2) ELSE << >>)
                                \o (IF n >= 3 THEN F(3) ELSE << >>)
            /\ \A i \in 1 .. Len(searches[s].kind[3].els) :
                   searches[s].kind[3].els[i].probes = << >>

\* a search resolved with a project of four recent files whose probes were
\* answered out of order, and with a team
C16_Witness ==
    \E s \in SearchIds :
        /\ searches[s].st = "resolved"
        /\ Len(searches[s].kind[2].els) = 1
        /\ Len(searches[s].kind[2].raw[1].recent) = 4
        /\ searches[s].kind[2].els[1].late
        /\ Len(searches[s].kind[3].els) = 1

\* C17: when every login, sub-query and probe gets a response or a failure
\* in the end, every search that was called settles: it resolves or rejects.
C17_SearchSettles ==
    \A s \in SearchIds :
        (searches[s].st = "pending") ~> (searches[s].st \in {"resolved", "rejected"})

\* a search waits for the answer to a probe, its sub-queries all answered
C17_Witness ==
    \E s \in SearchIds :
        /\ searches[s].st = "pending"
        /\ \A k \in Kinds : searches[s].kind[k].ph \in {"thumbs", "done"}
        /\ \E k \in Kinds : searches[s].kind[k].ph = "thumbs"

\* C18: no step of a search, succeeding or failing, assigns getClient or
\* orgId: which accessor getClient refers to (none, or the one of the last
\* init with the user it captured) and orgId change in calls of init only,
\* and between them they are what the last init installed.
C18_SearchWritesNothing ==
    [][/\ inits' = inits =>
             /\ orgId' = orgId
             /\ getClient'.def = getClient.def
             /\ getClient'.user = getClient.user
       /\ IF inits' = << >>
          THEN getClient' = NoAccessor /\ orgId' = << >>
          ELSE getClient'.def /\ orgId' = OrgString(inits'[Len(inits')])]_vars

\* of two overlapping searches one was rejected for a failed sub-query and
\* the other resolved
C18_Witness ==
    \E s \in SearchIds, t \in SearchIds :
        /\ searches[s].st = "rejected" /\ searches[s].err = "Query"
        /\ searches[t].st = "resolved"
        /\ searches[s].gen = searches[t].gen
        /\ getClient.def
        /\ orgId = OrgString(inits[Len(inits)])

\* C19: a call of init sends nothing and always succeeds: it leaves every
\* login and every search as it is and installs an accessor that holds no
\* login, for whatever user. Logins are sent by searches only: the search
\* that finds the accessor empty sends one. When a login fails, every search
\* with a callback waiting for it is rejected, with the login error when all
\* its callbacks waited for that login.
C19_InitSendsNothing ==
    [][/\ inits' # inits =>
             /\ logins' = logins
             /\ searches' = searches
             /\ getClient'.def /\ getClient'.cur = 0
             /\ orgId' = OrgString(inits'[Len(inits')])
       /\ Len(logins') > Len(logins) =>
             \E s \in SearchIds :
                 /\ StartsIn(s)
                 /\ \A p \in Len(logins) + 1 .. Len(logins') :
                        /\ logins'[p].gen = Len(inits)
                        /\ \E k \in Kinds : searches'[s].kind[k].p = p
       /\ \A s \in SearchIds :
             StartsIn(s) /\ getClient.def /\ getClient.cur = 0 =>
                 /\ Len(logins') = Len(logins) + 1
                 /\ \A k \in Kinds : searches'[s].kind[k].p = Len(logins')
       /\ \A s \in SearchIds, k \in Kinds :
             LET kr == searches'[s].kind[k]
             IN searches'[s].st \in {"pending", "resolved", "rejected"}
                   /\ kr.p # 0 /\ logins'[kr.p].st = "fail" =>
                   /\ searches'[s].st = "rejected"
                   /\ kr.kerr = "Login"
                   /\ (\A k2 \in Kinds : searches'[s].kind[k2].p = kr.p) =>
                          searches'[s].err = "Login"]_vars

\* init was given a user the backend turns away: the first search after it
\* sent the login and was rejected with the login error
C19_Witness ==
    \E s \in SearchIds :
        /\ searches[s].st = "rejected" /\ searches[s].err = "Login"
        /\ searches[s].gen >= 1
        /\ \A k \in Kinds :
               /\ searches[s].kind[k].p = 1
               /\ logins[1].user = "nobody" /\ logins[1].out = "nocookie"
====
